---- MODULE Spec2Model ----
(***************************************************************************)
(* A model of xylo-shd-demo-live.ipynb: the deployment cells (as_graph,    *)
(* mapper, channel_quantize, config_from_specification, XyloSim,           *)
(* XyloSamna, XyloMonitor), the class ResultList, and the live poll loop   *)
(* that drives modMonitor and fills the ResultList histories.              *)
(*                                                                         *)
(* Python objects are modelled with a heap: a deque is a heap cell         *)
(* [items, maxlen], a ResultList holds the index of its deque in the       *)
(* field "list" (self._list) and the field max_len, and a Python name      *)
(* bound to a deque (ax_time, a value returned by print_result) holds the  *)
(* index, so that aliasing is visible.                                     *)
(*                                                                         *)
(* Time is counted in ticks of 0.1 s, the argument of plt.pause and the    *)
(* increment of tt, so tt and the clock are integers.                      *)
(***************************************************************************)
EXTENDS Integers, Sequences, FiniteSets, TLC

VARIABLES
    pc,          \* position of the notebook's thread of control
    is_valid,    \* the flag returned by config_from_specification: <<flag>>
    constructed, \* the runtimes constructed so far
    inflight,    \* per runtime, the evolve calls entered and not yet left
    error,       \* the exception that ended the run, or "none"
    heap,        \* the deques allocated so far
    lines,       \* lines: one ResultList per output channel
    time_base,   \* time_base: a ResultList
    tt,          \* the time cursor
    t_start,     \* t_start = time()
    now,         \* the wall clock, time()
    output,      \* the name output of the poll loop
    i,           \* the index of the running for loop
    ax_time,     \* ax_time = time_base.print_result(): a deque, 0 if unbound
    appends,     \* history: appends made to each deque of the loop
    failures,    \* history: step calls of the loop that raised
    dataPolls,   \* history: step calls of the loop that returned a chunk
    net,         \* the trained network: its parameter tensors
    graph,       \* graph = net.as_graph()
    spec,        \* the dict spec
    waits,       \* history: None before the loop's first step call, then
                 \* <<n>>, n the plt.pause waits since the last step call
    rl,          \* a ResultList used by an arbitrary client
    snap,        \* the client's name bound to a print_result() value
    ret,         \* the last value returned to the client
    hist,        \* history: every value the client appended to rl
    max_len      \* the module-level name max_len read by reset(): None if
                 \* no such name is defined, <<n>> if it is bound to n

nbvars == <<pc, is_valid, constructed, inflight, error, heap, lines,
            time_base, tt, t_start, now, output, i, ax_time,
            appends, failures, dataPolls, net, graph, spec, waits>>
dvars == <<net, graph, spec>>
rlvars == <<rl, snap, ret, hist, max_len>>
vars == <<nbvars, dvars, waits,
                   rlvars>>

(***************************************************************************)
(* Bounds of the model.                                                    *)
(***************************************************************************)
\* output channels (Nout = 8 in the notebook)
Nout == 2
\* capacity of the loop's histories (max_len=10 in the notebook)
HistLen == 2
\* duration of the poll loop in ticks (t_inference = 10. s in the notebook)
TInference == 3
\* largest capacity a client gives a ResultList
MaxCap == 2
\* appends a client makes to one ResultList
MaxAppends == 4
\* deques a client's calls of reset() allocate
MaxResets == 1

\* the values of one output sample, and the lengths of a returned chunk
Vals == {0, 1}
ChunkLens == {1, 2}

\* Python's None and an array are told apart by tagging: None is the empty
\* tuple, a two-dimensional array a is <<a>>, a one-dimensional array v is
\* <<v, "1-D">>; the array itself is the first component
None == <<>>
Array(a) == <<a>>
Vector(v) == <<v, "1-D">>
\* a name that is not bound yet holds the empty tuple; a bound boolean b is
\* <<b>>
Unbound == <<>>
Runtimes == {"XyloSim", "XyloSamna", "XyloMonitor"}
StepErrors == {"RuntimeUnavailable", "DeviceIOError"}

Min(a, b) == IF a < b THEN a ELSE b

(***************************************************************************)
(* collections.deque with maxlen, and class ResultList.                    *)
(***************************************************************************)
\* deque(maxlen=n)
deque(n) == [items |-> <<>>, maxlen |-> n]

\* deque.append(x): a full bounded deque discards its leftmost item
deque_append_noevict(d, x) == [d EXCEPT !.items = Append(@, x)]
deque_append(d, x) ==
    IF d.maxlen = 0
    THEN d
    ELSE IF Len(d.items) = d.maxlen
         THEN [d EXCEPT !.items = Append(Tail(@), x)]
         ELSE [d EXCEPT !.items = Append(@, x)]

\* ResultList.__init__(max_len): the object, given the index of its deque
ResultList(ref, n) == [list |-> ref, max_len |-> n]

\* ResultList.append(num): the heap after self._list.append(num)
RL_append(h, r, num) == [h EXCEPT ![r.list] = deque_append(@, num)]

\* ResultList.__len__()
RL_len(h, r) == Len(h[r.list].items)

\* ResultList.print_result(): returns self._list, the deque itself
RL_print_result(h, r) == r.list

\* ResultList.counts(features)
RECURSIVE CountIn(_, _)
CountIn(s, features) ==
    IF s = <<>> THEN 0
    ELSE (IF Head(s) \in features THEN 1 ELSE 0) + CountIn(Tail(s), features)
RL_counts(h, r, features) == CountIn(h[r.list].items, features)

\* the items a name bound to a deque shows when it is read
Deref(h, ref) == h[ref].items

(***************************************************************************)
(* The deployment cells.                                                   *)
(***************************************************************************)
\* entering and leaving a call of a runtime (a Python call blocks its caller)
Enter(f, r) == [f EXCEPT ![r] = @ + 1]
Leave_nowait(f, r) == f
Leave(f, r) == [f EXCEPT ![r] = @ - 1]

\* the parameter tensors of a network and the keys of the dict spec; a value
\* is tagged with its number type
WeightKeys == {"weights_in", "weights_rec", "weights_out", "threshold"}
FloatLevels == {1, 2}
IntLevels == {0, 1}
Nets == {[k \in WeightKeys |-> <<"float", v>>] : v \in FloatLevels}

\* net.as_graph(): the graph carries the network's parameter tensors
as_graph(n) == n

\* xylo.mapper(graph): a dict of the weight matrices, the thresholds and dt
mapper(g) ==
    [k \in WeightKeys \cup {"dt"} |->
        IF k = "dt" THEN <<"float", "net_dt">> ELSE g[k]]

\* what channel_quantize(**spec) returns: a new dict of integer weights and
\* thresholds, all of level q
channel_quantize(sp, q) == [k \in WeightKeys |-> <<"int", q>>]

\* dict.update(e): the keys of e are bound to e's values in the dict itself
dict_update(d, e) ==
    [k \in DOMAIN d \cup DOMAIN e |-> IF k \in DOMAIN e THEN e[k] ELSE d[k]]

\* graph = net.as_graph()
AsGraph ==
    /\ pc = "as_graph"
    /\ graph' = as_graph(net)
    /\ pc' = "mapper"
    /\ UNCHANGED <<is_valid, constructed, inflight, error, heap, lines,
                   time_base, tt, t_start, now, output, i, ax_time,
                   appends, failures, dataPolls, net, spec, waits,
                   rlvars>>

\* spec = xylo.mapper(graph)
Mapper ==
    /\ pc = "mapper"
    /\ spec' = mapper(graph)
    /\ pc' = "quantize"
    /\ UNCHANGED <<is_valid, constructed, inflight, error, heap, lines,
                   time_base, tt, t_start, now, output, i, ax_time,
                   appends, failures, dataPolls, net, graph, waits,
                   rlvars>>

\* spec.update(channel_quantize(**spec))
Quantize ==
    /\ pc = "quantize"
    /\ \E q \in IntLevels : spec' = dict_update(spec, channel_quantize(spec, q))
    /\ pc' = "config"
    /\ UNCHANGED <<is_valid, constructed, inflight, error, heap, lines,
                   time_base, tt, t_start, now, output, i, ax_time,
                   appends, failures, dataPolls, net, graph, waits,
                   rlvars>>

\* config, is_valid, _ = xylo.config_from_specification(**spec)
ConfigFromSpecification ==
    /\ pc = "config"
    /\ \E v \in BOOLEAN : is_valid' = <<v>>
    /\ pc' = "deploy_sim"
    /\ UNCHANGED <<constructed, inflight, error, heap, lines,
                   time_base, tt, t_start, now, output, i, ax_time,
                   appends, failures, dataPolls, dvars, waits,
                   rlvars>>

\* mod = xylo.XyloSim.from_config(config, dt = net_dt)
DeploySim ==
    /\ pc = "deploy_sim"
    /\ constructed' = constructed \cup {"XyloSim"}
    /\ pc' = "sim_call"
    /\ UNCHANGED <<is_valid, inflight, error, heap, lines,
                   time_base, tt, t_start, now, output, i, ax_time,
                   appends, failures, dataPolls, dvars, waits,
                   rlvars>>

\* out_xsim, _, rd_xsim = mod(events.numpy(), record = True): the call
SimCall ==
    /\ pc = "sim_call"
    /\ inflight' = Enter(inflight, "XyloSim")
    /\ pc' = "sim_step"
    /\ UNCHANGED <<is_valid, constructed, error, heap, lines,
                   time_base, tt, t_start, now, output, i, ax_time,
                   appends, failures, dataPolls, dvars, waits,
                   rlvars>>

\* ... and its return
SimReturn ==
    /\ pc = "sim_step"
    /\ inflight' = Leave(inflight, "XyloSim")
    /\ pc' = "deploy_hdk"
    /\ UNCHANGED <<is_valid, constructed, error, heap, lines,
                   time_base, tt, t_start, now, output, i, ax_time,
                   appends, failures, dataPolls, dvars, waits,
                   rlvars>>

\* mod_hdk = xylo.XyloSamna(hdk, config, net_dt)
DeployHdk ==
    /\ pc = "deploy_hdk"
    /\ constructed' = constructed \cup {"XyloSamna"}
    /\ pc' = "hdk_call"
    /\ UNCHANGED <<is_valid, inflight, error, heap, lines,
                   time_base, tt, t_start, now, output, i, ax_time,
                   appends, failures, dataPolls, dvars, waits,
                   rlvars>>

\* out_xhdk, _, rd_xhdk = mod_hdk(..., record = True, record_power=True)
HdkCall ==
    /\ pc = "hdk_call"
    /\ inflight' = Enter(inflight, "XyloSamna")
    /\ pc' = "hdk_step"
    /\ UNCHANGED <<is_valid, constructed, error, heap, lines,
                   time_base, tt, t_start, now, output, i, ax_time,
                   appends, failures, dataPolls, dvars, waits,
                   rlvars>>

HdkReturn ==
    /\ pc = "hdk_step"
    /\ inflight' = Leave(inflight, "XyloSamna")
    /\ pc' = "deploy_monitor"
    /\ UNCHANGED <<is_valid, constructed, error, heap, lines,
                   time_base, tt, t_start, now, output, i, ax_time,
                   appends, failures, dataPolls, dvars, waits,
                   rlvars>>

\* modMonitor = xylo.XyloMonitor(hdk, config, dt=net_dt, ...)
DeployMonitor ==
    /\ pc = "deploy_monitor"
    /\ constructed' = constructed \cup {"XyloMonitor"}
    /\ pc' = "init_loop"
    /\ UNCHANGED <<is_valid, inflight, error, heap, lines,
                   time_base, tt, t_start, now, output, i, ax_time,
                   appends, failures, dataPolls, dvars, waits,
                   rlvars>>

(***************************************************************************)
(* The poll loop.                                                          *)
(***************************************************************************)
\* what modMonitor can return as output: T rows of Nout values
Chunks == UNION {[1..T -> [1..Nout -> Vals]] : T \in ChunkLens}

RECURSIVE SeqMax(_)
SeqMax(s) ==
    IF Len(s) = 1 THEN s[1]
    ELSE LET m == SeqMax(Tail(s)) IN IF s[1] > m THEN s[1] ELSE m

\* np.max(output, axis=0)
np_last_axis0(o) == o[Len(o)]
np_max_axis0(o) == [j \in 1..Nout |-> SeqMax([t \in 1..Len(o) |-> o[t][j]])]

\* range(Nout)
range_short == 0..(Nout - 2)
range_Nout == 0..(Nout - 1)

\* lines = [ResultList(max_len=10) for _ in range(Nout)]
\* time_base = ResultList(max_len=10); tt = 0; t_inference = 10.
\* t_start = time()
InitLoop ==
    /\ pc = "init_loop"
    /\ heap' = heap \o [k \in 1..(Nout + 1) |-> deque(HistLen)]
    /\ lines' = [k \in 1..Nout |-> ResultList(Len(heap) + k, HistLen)]
    /\ time_base' = ResultList(Len(heap) + Nout + 1, HistLen)
    /\ tt' = 0
    /\ t_start' = now
    /\ pc' = "while"
    /\ UNCHANGED <<is_valid, constructed, inflight, error, now, output, i,
                   ax_time, appends, failures, dataPolls, dvars, waits,
                   rlvars>>

\* (time() - t_start) < t_inference
LoopCondition_le(elapsed) == elapsed <= TInference
LoopCondition(elapsed) == elapsed < TInference

\* while (time() - t_start) < t_inference:
WhileTest ==
    /\ pc = "while"
    /\ pc' = IF LoopCondition(now - t_start) THEN "call" ELSE "done"
    /\ UNCHANGED <<is_valid, constructed, inflight, error, heap, lines,
                   time_base, tt, t_start, now, output, i, ax_time,
                   appends, failures, dataPolls, dvars, waits,
                   rlvars>>

\* modMonitor(input_data=np.zeros((T, Nin))): the call is entered
StepCall ==
    /\ pc = "call"
    /\ inflight' = Enter(inflight, "XyloMonitor")
    /\ waits' = <<0>>
    /\ pc' = "stepping"
    /\ UNCHANGED <<is_valid, constructed, error, heap, lines,
                   time_base, tt, t_start, now, output, i, ax_time,
                   appends, failures, dataPolls, dvars,
                   rlvars>>

\* the call returns (output, _, _), output being None or a chunk; it
\* blocks for d ticks
StepReturn ==
    /\ pc = "stepping"
    /\ pc' = "if"
    /\ inflight' = Leave(inflight, "XyloMonitor")
    /\ \E o \in {None} \cup {Array(c) : c \in Chunks}, d \in {0, 1} :
          /\ output' = o
          /\ now' = now + d
          /\ dataPolls' = IF o = None THEN dataPolls ELSE dataPolls + 1
    /\ UNCHANGED <<is_valid, constructed, error, heap, lines,
                   time_base, tt, t_start, i, ax_time,
                   appends, failures, dvars, waits,
                   rlvars>>

\* the call raises: nothing in the loop catches it, so it ends the cell
StepRaise ==
    /\ pc = "stepping"
    /\ \E e \in StepErrors : error' = e
    /\ inflight' = Leave(inflight, "XyloMonitor")
    /\ failures' = failures + 1
    /\ pc' = "loop_raised"
    /\ UNCHANGED <<is_valid, constructed, heap, lines,
                   time_base, tt, t_start, now, output, i, ax_time,
                   appends, dataPolls, dvars, waits,
                   rlvars>>

\* what a poll without data does to the histories and the cursor
NoData_advance == tt' = tt + 1 /\ UNCHANGED <<heap, lines, time_base, appends>>
NoData == UNCHANGED <<heap, lines, time_base, tt, appends>>

\* if output is not None:
IfOutput ==
    /\ pc = "if"
    /\ IF output # None
       THEN /\ pc' = "max"
            /\ UNCHANGED <<heap, lines, time_base, tt, appends>>
       ELSE /\ pc' = "while"
            /\ NoData
    /\ UNCHANGED <<is_valid, constructed, inflight, error,
                   t_start, now, output, i, ax_time, failures,
                   dataPolls, dvars, waits,
                   rlvars>>

\* output = np.max(output, axis=0)
MaxOutput ==
    /\ pc = "max"
    /\ output' = Vector(np_max_axis0(output[1]))
    /\ i' = 0
    /\ pc' = "append"
    /\ UNCHANGED <<is_valid, constructed, inflight, error, heap, lines,
                   time_base, tt, t_start, now, ax_time,
                   appends, failures, dataPolls, dvars, waits,
                   rlvars>>

\* for i in range(Nout): lines[i].append(output[i])
AppendLine ==
    /\ pc = "append"
    /\ IF i \in range_Nout
       THEN /\ heap' = RL_append(heap, lines[i + 1], output[1][i + 1])
            /\ appends' = [appends EXCEPT ![i + 1] = @ + 1]
            /\ i' = i + 1
            /\ pc' = "append"
       ELSE /\ pc' = "tb_append"
            /\ UNCHANGED <<heap, appends, i>>
    /\ UNCHANGED <<is_valid, constructed, inflight, error, lines,
                   time_base, tt, t_start, now, output, ax_time,
                   failures, dataPolls, dvars, waits,
                   rlvars>>

\* time_base.append(tt)
AppendTime ==
    /\ pc = "tb_append"
    /\ heap' = RL_append(heap, time_base, tt)
    /\ appends' = [appends EXCEPT ![Nout + 1] = @ + 1]
    /\ pc' = "tt_inc"
    /\ UNCHANGED <<is_valid, constructed, inflight, error, lines,
                   time_base, tt, t_start, now, output, i, ax_time,
                   failures, dataPolls, dvars, waits,
                   rlvars>>

\* tt += 0.1
AdvanceCursor_stuck ==
    /\ pc = "tt_inc"
    /\ pc' = "ax_time"
    /\ UNCHANGED <<is_valid, constructed, inflight, error, heap, lines,
                   time_base, tt, t_start, now, output, i, ax_time,
                   appends, failures, dataPolls, dvars, waits, rlvars>>
AdvanceCursor ==
    /\ pc = "tt_inc"
    /\ tt' = tt + 1
    /\ pc' = "ax_time"
    /\ UNCHANGED <<is_valid, constructed, inflight, error, heap, lines,
                   time_base, t_start, now, output, i, ax_time,
                   appends, failures, dataPolls, dvars, waits,
                   rlvars>>

\* ax_time = time_base.print_result()
TakeAxTime ==
    /\ pc = "ax_time"
    /\ ax_time' = RL_print_result(heap, time_base)
    /\ i' = 0
    /\ pc' = "plot"
    /\ UNCHANGED <<is_valid, constructed, inflight, error, heap, lines,
                   time_base, tt, t_start, now, output,
                   appends, failures, dataPolls, dvars, waits,
                   rlvars>>

\* for i in range(Nout): plt.plot(ax_time, lines[i].print_result(), ...)
\* (the deques are read, nothing is written)
Plot ==
    /\ pc = "plot"
    /\ IF i \in range_Nout
       THEN i' = i + 1 /\ pc' = "plot"
       ELSE i' = i /\ pc' = "pause"
    /\ UNCHANGED <<is_valid, constructed, inflight, error, heap, lines,
                   time_base, tt, t_start, now, output, ax_time,
                   appends, failures, dataPolls, dvars, waits,
                   rlvars>>

\* plt.xlabel ... plt.legend(); plt.pause(0.1); display.clear_output(wait=True)
Pause ==
    /\ pc = "pause"
    /\ now' = now + 1
    /\ waits' = <<waits[1] + 1>>
    /\ pc' = "while"
    /\ UNCHANGED <<is_valid, constructed, inflight, error, heap, lines,
                   time_base, tt, t_start, output, i, ax_time,
                   appends, failures, dataPolls, dvars,
                   rlvars>>

Init ==
    /\ pc = "as_graph"
    /\ is_valid = Unbound
    /\ constructed = {}
    /\ inflight = [r \in Runtimes |-> 0]
    /\ error = "none"
    /\ heap = <<>>
    /\ lines = <<>>
    /\ time_base = Unbound
    /\ tt = 0
    /\ t_start = 0
    /\ now = 0
    /\ output = None
    /\ i = 0
    /\ ax_time = 0
    /\ appends = [k \in 1..(Nout + 1) |-> 0]
    /\ failures = 0
    /\ dataPolls = 0
    /\ net \in Nets
    /\ graph = Unbound
    /\ spec = Unbound
    /\ waits = None
    /\ rl = Unbound
    /\ snap = 0
    /\ ret = 0
    /\ hist = <<>>
    /\ max_len = None

Next ==
    \/ AsGraph \/ Mapper \/ Quantize \/ ConfigFromSpecification
    \/ DeploySim \/ SimCall \/ SimReturn
    \/ DeployHdk \/ HdkCall \/ HdkReturn \/ DeployMonitor
    \/ InitLoop \/ WhileTest \/ StepCall \/ StepReturn \/ StepRaise
    \/ IfOutput \/ MaxOutput \/ AppendLine \/ AppendTime \/ AdvanceCursor
    \/ TakeAxTime \/ Plot \/ Pause

Spec == Init /\ [][Next]_vars

\* The interpreter keeps executing the notebook's statements, and the wall
\* clock advances: of the step calls that return, some take a tick or more.
TimePasses == StepReturn /\ now' > now
SpecLive == Init /\ [][Next]_vars /\ WF_vars(Next) /\ SF_vars(TimePasses)

(***************************************************************************)
(* class ResultList under an arbitrary client: one object built with       *)
(* ResultList(max_len=N), then any calls of its methods.                   *)
(***************************************************************************)
\* r = ResultList(max_len=N)
InitRL ==
    /\ pc = "client"
    /\ is_valid = Unbound
    /\ constructed = {}
    /\ inflight = [r \in Runtimes |-> 0]
    /\ error = "none"
    /\ \E N \in 1..MaxCap :
          /\ heap = <<deque(N)>>
          /\ rl = ResultList(1, N)
    /\ lines = <<>>
    /\ time_base = Unbound
    /\ tt = 0
    /\ t_start = 0
    /\ now = 0
    /\ output = None
    /\ i = 0
    /\ ax_time = 0
    /\ appends = [k \in 1..(Nout + 1) |-> 0]
    /\ failures = 0
    /\ dataPolls = 0
    /\ net = Unbound
    /\ graph = Unbound
    /\ spec = Unbound
    /\ waits = None
    /\ snap = 0
    /\ ret = 0
    /\ hist = <<>>
    /\ max_len \in {None} \cup {<<n>> : n \in 1..MaxCap}

\* r.append(num)
ClientAppend ==
    /\ pc = "client"
    /\ Len(hist) < MaxAppends
    /\ \E num \in Vals :
          /\ heap' = RL_append(heap, rl, num)
          /\ hist' = Append(hist, num)
    /\ error' = "none"
    /\ UNCHANGED <<pc, is_valid, constructed, inflight, lines, time_base,
                   tt, t_start, now, output, i, ax_time, appends, failures,
                   dataPolls, dvars, waits, rl, snap, ret,
                   max_len>>

\* r.reset(): self._list = deque(maxlen=max_len), max_len being the
\* module-level name; with no such name the call raises NameError
ClientReset ==
    /\ pc = "client"
    /\ IF max_len = None
       THEN /\ error' = "NameError"
            /\ UNCHANGED <<heap, rl, hist>>
       ELSE /\ Len(heap) <= MaxResets
            /\ heap' = Append(heap, deque(max_len[1]))
            /\ rl' = [rl EXCEPT !.list = Len(heap) + 1]
            /\ hist' = <<>>
            /\ error' = "none"
    /\ UNCHANGED <<pc, is_valid, constructed, inflight, lines, time_base,
                   tt, t_start, now, output, i, ax_time, appends, failures,
                   dataPolls, dvars, waits, snap, ret, max_len>>

\* len(r)
ClientLen ==
    /\ pc = "client"
    /\ ret' = RL_len(heap, rl)
    /\ error' = "none"
    /\ UNCHANGED <<pc, is_valid, constructed, inflight, heap, lines,
                   time_base, tt, t_start, now, output, i, ax_time, appends,
                   failures, dataPolls, dvars, waits, rl, snap, hist,
                   max_len>>

\* r.counts(features)
ClientCounts ==
    /\ pc = "client"
    /\ \E features \in SUBSET Vals : ret' = RL_counts(heap, rl, features)
    /\ error' = "none"
    /\ UNCHANGED <<pc, is_valid, constructed, inflight, heap, lines,
                   time_base, tt, t_start, now, output, i, ax_time, appends,
                   failures, dataPolls, dvars, waits, rl, snap, hist,
                   max_len>>

\* s = r.print_result()
ClientPrintResult ==
    /\ pc = "client"
    /\ snap' = RL_print_result(heap, rl)
    /\ error' = "none"
    /\ UNCHANGED <<pc, is_valid, constructed, inflight, heap, lines,
                   time_base, tt, t_start, now, output, i, ax_time, appends,
                   failures, dataPolls, dvars, waits, rl, ret, hist,
                   max_len>>

NextRL ==
    \/ ClientAppend \/ ClientReset \/ ClientLen \/ ClientCounts
    \/ ClientPrintResult

SpecRL == InitRL /\ [][NextRL]_vars

(***************************************************************************)
(* Properties.                                                             *)
(***************************************************************************)
\* the last n items of s, in order
LastN(s, n) == SubSeq(s, Len(s) - Min(n, Len(s)) + 1, Len(s))

\* C1: a ResultList built with capacity N >= 1 and only appended to never
\* holds more than N samples, and holds exactly the N most recent of the
\* appended samples in arrival order (all of them while fewer than N were
\* appended): a full buffer evicts its oldest sample on every append.
C1_BoundedFifo ==
    rl.list = 1 =>
        /\ RL_len(heap, rl) <= rl.max_len
        /\ RL_len(heap, rl) = Min(Len(hist), rl.max_len)
        /\ Deref(heap, rl.list) = LastN(hist, rl.max_len)

\* N+1 samples were appended to a ResultList of capacity N, which holds N
C1_Witness ==
    /\ rl.list = 1
    /\ Len(hist) = rl.max_len + 1
    /\ RL_len(heap, rl) = rl.max_len
    /\ Deref(heap, rl.list) = Tail(hist)

\* C2: a poll for which modMonitor returns output = None changes no channel
\* history, not the time-base history and not the time cursor tt, appends
\* nothing at all, and goes straight back to the loop test.
C2_NoDataChangesNothing ==
    [][((pc = "stepping" /\ pc' = "if" /\ output' = None)
            \/ (pc = "if" /\ output = None))
        => /\ heap' = heap
           /\ lines' = lines
           /\ time_base' = time_base
           /\ tt' = tt
           /\ appends' = appends
           /\ (pc = "if" => pc' = "while")]_vars

\* a poll returned None after an earlier poll had filled the histories, and
\* the loop is back at its test
C2_Witness ==
    /\ pc = "while"
    /\ output = None
    /\ dataPolls = 1
    /\ tt = 1
    /\ Deref(heap, time_base.list) = <<0>>

\* v is the largest value of column j of chunk o
IsColumnMax(o, j, v) ==
    /\ \E t \in 1..Len(o) : o[t][j] = v
    /\ \A t \in 1..Len(o) : o[t][j] <= v

\* the cell of deque ref gets x pushed, evicting the oldest item of a full
\* deque, and no other deque changes
Pushed(ref, x) ==
    /\ heap'[ref].items = LastN(heap[ref].items \o <<x>>, HistLen)
    /\ \A q \in 1..Len(heap) : q # ref => heap'[q] = heap[q]

\* C3: a poll that returns a chunk reduces it to the per-channel maximum over
\* its timesteps, appends that maximum to each of the Nout channel histories
\* (one sample per history and poll), appends the time cursor to the time
\* base and then advances the cursor by one cadence; the cursor never
\* decreases.
C3_DataPollAppendsMax ==
    /\ [](pc = "ax_time" =>
            /\ \A k \in 1..(Nout + 1) : appends[k] = dataPolls
            /\ \A j \in 1..Nout :
                  Deref(heap, lines[j].list)[RL_len(heap, lines[j])]
                      = output[1][j]
            /\ Deref(heap, time_base.list)[RL_len(heap, time_base)] = tt - 1
            /\ tt = dataPolls)
    /\ [][/\ pc = "max" =>
                \A j \in 1..Nout : IsColumnMax(output[1], j, output'[1][j])
          /\ (pc = "append" /\ i < Nout) =>
                Pushed(lines[i + 1].list, output[1][i + 1])
          /\ pc = "tb_append" => Pushed(time_base.list, tt)
          /\ pc = "tt_inc" => tt' = tt + 1
          /\ pc \in {"append", "tb_append", "tt_inc"} => output' = output
          /\ tt' >= tt]_vars

\* one more poll with data than the histories hold is done: the time base
\* evicted its oldest sample, and channel 0 received the maximum 1
C3_Witness ==
    /\ pc = "ax_time"
    /\ dataPolls = HistLen + 1
    /\ Deref(heap, time_base.list) = [k \in 1..HistLen |-> k]
    /\ output[1][1] = 1
    /\ Deref(heap, lines[1].list)[HistLen] = 1

\* C4: the loop stops only at its test, between two polls: when it has
\* stopped no step call is in progress and every channel history and the time
\* base have received the same number of samples (each poll appended to all
\* of them or to none).
C4_StopsOnlyAtPollBoundary ==
    /\ [](pc \in {"done", "loop_raised"} =>
            /\ inflight["XyloMonitor"] = 0
            /\ \A k \in 1..Nout : appends[k] = appends[Nout + 1])
    /\ [][pc' = "done" => (pc = "while" /\ inflight["XyloMonitor"] = 0)]_vars

\* the duration has elapsed and the loop has stopped after polls with data
C4_Witness ==
    /\ pc = "done"
    /\ now - t_start >= TInference
    /\ appends[Nout + 1] >= 2
    /\ appends[1] = appends[Nout + 1]

\* C5: a failed step call is treated as a poll without data, so the loop is
\* ended by errors only once a step call has failed more than once.
C5_ErrorIsNoData == pc = "loop_raised" => failures > 1

\* C6: a value obtained from print_result() is a snapshot: while the name
\* ax_time stays bound to it, what it shows does not change.
C6_SnapshotIsImmutable ==
    [][(ax_time # 0 /\ ax_time' = ax_time)
        => Deref(heap, ax_time)' = Deref(heap, ax_time)]_vars

\* C7: no runtime is constructed from a configuration whose validity flag is
\* false.
C7_NoRuntimeFromInvalidConfig == constructed # {} => is_valid = <<TRUE>>

\* C8: no runtime ever has more than one evolve call in flight.
C8_OneStepInFlight == \A r \in Runtimes : inflight[r] <= 1

\* a step of modMonitor is in flight after an earlier one has returned
C8_Witness ==
    /\ pc = "stepping"
    /\ inflight["XyloMonitor"] = 1
    /\ dataPolls >= 1

\* C11: between two consecutive step calls of the poll loop there is exactly
\* one timed wait (plt.pause), also after a poll that returned no data: when
\* the loop is about to issue a step call after an earlier one, it has waited
\* once since that earlier call.
C11_OneWaitBetweenSteps == (pc = "call" /\ waits # None) => waits = <<1>>

\* C12: quantizing leaves its input specification unchanged and available:
\* once channel_quantize has run, spec still is the floating-point
\* specification the mapper returned.
C12_InputSpecUnchanged ==
    pc \notin {"as_graph", "mapper", "quantize", "client"}
        => spec = mapper(graph)

\* C13: the capacity of a ResultList is fixed at construction and reset()
\* always succeeds: the buffer's capacity is the max_len the object was built
\* with, and no call has raised.
C13_CapacityFixed ==
    /\ heap[rl.list].maxlen = rl.max_len
    /\ error = "none"

\* C14: the poll loop terminates: unless a step call fails to return, the
\* loop eventually exits, and once the duration has elapsed at the loop test
\* the loop exits there without starting another step call.
C14_LoopTerminates ==
    /\ <>(pc = "done" \/ failures > 0)
    /\ [][(pc = "while" /\ now - t_start >= TInference) => pc' = "done"]_vars

\* the loop has exited after the duration elapsed although no poll ever
\* returned data and no step call failed
C14_Witness ==
    /\ pc = "done"
    /\ failures = 0
    /\ dataPolls = 0
    /\ now - t_start >= TInference

\* C15: at every loop test all channel histories and the time base have the
\* same length, min(polls that returned data, capacity), and the time-base
\* values are consecutive: each is one cadence after the one before it.
C15_HistoriesAligned ==
    pc = "while" =>
        /\ \A k \in 1..Nout :
              RL_len(heap, lines[k]) = Min(dataPolls, HistLen)
        /\ RL_len(heap, time_base) = Min(dataPolls, HistLen)
        /\ \A j \in 1..(RL_len(heap, time_base) - 1) :
              Deref(heap, time_base.list)[j + 1]
                  = Deref(heap, time_base.list)[j] + 1

\* the loop is at its test after more polls with data than the histories
\* hold: all histories are full and the time base has lost its first value
C15_Witness ==
    /\ pc = "while"
    /\ dataPolls = HistLen + 1
    /\ \A k \in 1..Nout : RL_len(heap, lines[k]) = HistLen
    /\ Deref(heap, time_base.list)[1] = 1

====
